---- MODULE Spec2Model ----
(***************************************************************************)
(* Wizard builder: the definition store and publish pipeline (the API the  *)
(* builder UI calls) and the runtime session engine (wizardStore,          *)
(* WizardRunner, pageLoader, getNextStepId).                               *)
(*                                                                         *)
(* Strings that the code takes apart (page references) are sequences of    *)
(* tokens; keys, version tags and step ids are plain strings.              *)
(***************************************************************************)
EXTENDS Integers, Sequences, FiniteSets, TLC

VARIABLES
    store,          \* [wizard |-> rows of wizard_definitions, page |-> rows of page_definitions]
    reqs,           \* publish requests in flight, one per API client
    resp,           \* the last response of a draft endpoint (create / update / delete)
    pubCount,       \* history: successful publish responses so far, per kind and key
    wizard,         \* wizardStore: the loaded wizard definition (NoWizard for null)
    pages,          \* wizardStore: pageRef -> loaded page definition
    sessionId,      \* wizardStore: id of the session (0 for null)
    currentStep,    \* wizardStore: id of the step on screen ("" for null)
    stepHistory,    \* wizardStore: steps left by forward navigation
    sessionState,   \* wizardStore: the state tree, as its set of <<path, value>> leaves
    isLoading,      \* wizardStore
    error,          \* wizardStore ("" for null)
    runner,         \* WizardRunner: position of the init effect and the props it runs with
    sessions,       \* backend: session records, the record of session i at index i
    patches,        \* PATCH /api/embedded/sessions/{id} requests in flight
    lastCall,       \* history: the last handler that ran and the branch it took
    freshNav,       \* history: the wizard was loaded onto an empty stepHistory and only
                    \* goNext / goBack ran since
    heap,           \* the objects a path function works on, the object of reference i at index i
    call,           \* a call of a pure function: its arguments and, once it ran, its outcome
    effectDeps,     \* StepRouter: the currentStep and wizard the onEnter effect last ran with
    batch           \* StepRouter: the executeStepHooks call the effect started last

storeVars == <<store, reqs, resp, pubCount>>

engineVars == <<wizard, pages, sessionId, currentStep, stepHistory, sessionState, isLoading, error>>

rtVars == <<wizard, pages, sessionId, currentStep, stepHistory, sessionState, isLoading, error,
            runner, sessions, patches, lastCall, freshNav>>

pureVars == <<heap, call>>

hookVars == <<effectDeps, batch>>

vars == <<store, reqs, resp, pubCount,
          wizard, pages, sessionId, currentStep, stepHistory, sessionState, isLoading, error,
          runner, sessions, patches, lastCall, freshNav, heap, call, effectDeps, batch>>

----------------------------------------------------------------------------
(* Bounds of the model *)

\* Published versions per key after which the model stops publishing.
MaxVersions == 2

\* API clients that may have a publish request in flight at the same time.
Clients == {1, 2}

Kinds == {"wizard", "page"}

WizardKeys == {"w"}

PageKeys == {"p"}

KeysOf(kind) == IF kind = "wizard" THEN WizardKeys ELSE PageKeys

\* A step that carries inline fields has no pageRef.
NoRef == <<>>

Step(id, ref) == [id |-> id, pageRef |-> ref]

\* The `steps` array of the wizard definitions an author may save: one with an
\* unpinned page reference, one with two pinned references.
WizardBodies ==
    { << Step("s1", <<"p">>), Step("s2", NoRef) >>,
      << Step("t1", <<"p", "@", "v1">>), Step("t2", <<"p", "@", "v2">>) >> }

\* The `fields` array (field types) of the page definitions an author may save.
PageBodies == { <<"select">>, <<"select", "options-as-strings">> }

BodiesOf(kind) == IF kind = "wizard" THEN WizardBodies ELSE PageBodies

----------------------------------------------------------------------------
(* DefinitionStore *)

DRAFT == "draft"

VersionTag(n) == "v" \o ToString(n)

VersionNumber(tag) == CHOOSE n \in 0..(2 * MaxVersions + 2) : VersionTag(n) = tag

\* Content hash of a body: equal bodies, equal checksums, and no collisions.
Checksum(body) == <<"sha256", body>>

\* A row id no row of the store carries: the kind, the key and the least serial
\* number unused among the rows of that key.
FreshId(st, kind, key) ==
    LET used == { r.id[3] : r \in { x \in st[kind] : x.key = key } }
    IN  <<kind, key, CHOOSE i \in 1..(Cardinality(used) + 1) :
                        i \notin used /\ \A j \in 1..(i - 1) : j \in used>>

DraftRows(st, kind, key) == { r \in st[kind] : r.key = key /\ r.version = DRAFT }

PublishedRows(st, kind, key) == { r \in st[kind] : r.key = key /\ r.version # DRAFT }

HasDraft(st, kind, key) == DraftRows(st, kind, key) # {}

getDraft(st, kind, key) == CHOOSE r \in DraftRows(st, kind, key) : TRUE

HasPublished(st, kind, key, version) ==
    \E r \in st[kind] : r.key = key /\ r.version = version /\ version # DRAFT

getPublished(st, kind, key, version) ==
    CHOOSE r \in st[kind] : r.key = key /\ r.version = version

PublishedNumbers(st, kind, key) ==
    { VersionNumber(r.version) : r \in PublishedRows(st, kind, key) }

MaxOf(S) == IF S = {} THEN 0 ELSE CHOOSE m \in S : \A n \in S : n <= m

getLatestPublished(st, kind, key) ==
    getPublished(st, kind, key, VersionTag(MaxOf(PublishedNumbers(st, kind, key))))

NewRow(id, key, version, body) ==
    [id |-> id, key |-> key, version |-> version, body |-> body, checksum |-> Checksum(body)]

\* POST /api/{kind}s : Conflict when the key already has a draft.
CreateDraftAlways(st, kind, key, body) ==
    [status |-> "ok",
     store |-> [st EXCEPT ![kind] = @ \cup {NewRow(FreshId(st, kind, key), key, DRAFT, body)}]]

createDraft(st, kind, key, body) ==
    IF HasDraft(st, kind, key)
    THEN [status |-> "Conflict", store |-> st]
    ELSE [status |-> "ok",
          store |-> [st EXCEPT ![kind] = @ \cup {NewRow(FreshId(st, kind, key), key, DRAFT, body)}]]

\* PUT /api/{kind}s/{key}/draft : same row, new body, checksum recomputed.
updateDraft(st, kind, key, body) ==
    IF ~HasDraft(st, kind, key)
    THEN [status |-> "NotFound", store |-> st]
    ELSE LET old == getDraft(st, kind, key)
         IN  [status |-> "ok",
              store |-> [st EXCEPT ![kind] =
                            (@ \ {old}) \cup {NewRow(old.id, key, DRAFT, body)}]]

\* DELETE /api/{kind}s/{key}/draft
deleteDraft(st, kind, key) ==
    IF ~HasDraft(st, kind, key)
    THEN [status |-> "NotFound", store |-> st]
    ELSE [status |-> "ok", store |-> [st EXCEPT ![kind] = @ \ DraftRows(st, kind, key)]]

NextVersionStuck(st, kind, key) == MaxOf(PublishedNumbers(st, kind, key))

NextVersionGlobal(st, kind, key) ==
    Cardinality({ r \in st.wizard : r.version # DRAFT })
        + Cardinality({ r \in st.page : r.version # DRAFT }) + 1

\* One greater than the current maximum published version, 1 if there is none.
NextVersionNumber(st, kind, key) == MaxOf(PublishedNumbers(st, kind, key)) + 1

PromoteDraftRow(st, kind, key, body) ==
    [st EXCEPT ![kind] =
        (@ \ DraftRows(st, kind, key))
            \cup {NewRow(FreshId(st, kind, key), key, VersionTag(NextVersionNumber(st, kind, key)), body)}]

\* Atomic: computes the next version and inserts a new row; the draft stays.
createNextPublishedVersion(st, kind, key, body) ==
    [st EXCEPT ![kind] =
        @ \cup {NewRow(FreshId(st, kind, key), key, VersionTag(NextVersionNumber(st, kind, key)), body)}]

----------------------------------------------------------------------------
(* PublishPipeline *)

FieldTypes == {"text", "email", "number", "select", "checkbox", "textarea", "date", "radio", "file"}

\* Validation of a body against the JSON schema of its kind: a wizard needs a
\* non-empty steps array, a page needs fields of the enumerated types.
SchemaValid(kind, body) ==
    IF kind = "wizard"
    THEN Len(body) >= 1
    ELSE \A i \in 1..Len(body) : body[i] \in FieldTypes

RECURSIVE SplitFrom(_, _, _)
\* The parts of `s` after position i - 1, `cur` being the part collected so far.
SplitFrom(s, sep, cur) ==
    IF s = <<>> THEN <<cur>>
    ELSE IF Head(s) = sep THEN <<cur>> \o SplitFrom(Tail(s), sep, <<>>)
    ELSE SplitFrom(Tail(s), sep, Append(cur, Head(s)))

\* String.prototype.split / str.split: "a@b" gives two parts, "a" gives one.
Split(s, sep) == SplitFrom(s, sep, <<>>)

RECURSIVE Join(_)
Join(tokens) == IF tokens = <<>> THEN "" ELSE Head(tokens) \o Join(Tail(tokens))

\* Every page reference embedded in the steps.
ExtractPageRefs(body) == { body[i].pageRef : i \in 1..Len(body) } \ {NoRef}

HasAnyPublished(st, kind, key) == PublishedRows(st, kind, key) # {}

\* The publish-time check of one reference: "key@version" needs that exact
\* published page version, a bare "key" needs the page to exist as published.
RefResolved(st, ref) ==
    LET parts == Split(ref, "@")
    IN  IF Len(parts) = 1 THEN HasAnyPublished(st, "page", Join(parts[1]))
        ELSE IF Len(parts) = 2 THEN HasPublished(st, "page", Join(parts[1]), Join(parts[2]))
        ELSE FALSE

\* Collect-all: every unresolved reference of the body.
MissingRefs(st, body) == { ref \in ExtractPageRefs(body) : ~RefResolved(st, ref) }

CommitFirst(phase) ==
    CASE phase = "load" -> "commit"
      [] phase = "commit" -> "refs"
      [] OTHER -> "done"

\* The order of the pipeline: load the draft and validate it against its schema,
\* referential integrity, version assignment and commit. A phase is one access
\* to the store with the computation on what it read.
NextPhase(phase) ==
    CASE phase = "load" -> "refs"
      [] phase = "refs" -> "commit"
      [] OTHER -> "done"

IdleRequest == [pc |-> "idle", kind |-> "page", key |-> "", body |-> <<>>, version |-> ""]

Response(op, status, errors, version) ==
    [op |-> op, status |-> status, errors |-> errors, version |-> version]

\* Requests on a key that may still commit.
InFlight(kind, key) ==
    { c \in Clients : reqs[c].pc # "idle" /\ reqs[c].kind = kind /\ reqs[c].key = key }

\* The request of client c passed `phase`: it moves on, or answers with the
\* published version when that was the last phase.
Proceed(c, phase, r) ==
    LET nxt == NextPhase(phase)
    IN  IF nxt = "done"
        THEN /\ reqs' = [reqs EXCEPT ![c] = IdleRequest]
             /\ resp' = Response("publish", "ok", {}, r.version)
             /\ pubCount' = [pubCount EXCEPT ![<<r.kind, r.key>>] = @ + 1]
        ELSE /\ reqs' = [reqs EXCEPT ![c] = [r EXCEPT !.pc = nxt]]
             /\ UNCHANGED <<resp, pubCount>>

\* The request of client c ends on its first failure.
Fail(c, status, errors) ==
    /\ reqs' = [reqs EXCEPT ![c] = IdleRequest]
    /\ resp' = Response("publish", status, errors, "")
    /\ UNCHANGED pubCount

----------------------------------------------------------------------------
(* Actions of the definition API *)

StoreKeys == { <<"wizard", key>> : key \in WizardKeys } \cup { <<"page", key>> : key \in PageKeys }

ApiCreateDraft(kind, key, body) ==
    LET r == createDraft(store, kind, key, body)
    IN  /\ store' = r.store
        /\ resp' = Response("create", r.status, {}, "")
        /\ UNCHANGED <<reqs, pubCount>>
        /\ UNCHANGED <<rtVars, pureVars, hookVars>>

ApiUpdateDraft(kind, key, body) ==
    LET r == updateDraft(store, kind, key, body)
    IN  /\ store' = r.store
        /\ resp' = Response("update", r.status, {}, "")
        /\ UNCHANGED <<reqs, pubCount>>
        /\ UNCHANGED <<rtVars, pureVars, hookVars>>

ApiDeleteDraft(kind, key) ==
    LET r == deleteDraft(store, kind, key)
    IN  /\ store' = r.store
        /\ resp' = Response("delete", r.status, {}, "")
        /\ UNCHANGED <<reqs, pubCount>>
        /\ UNCHANGED <<rtVars, pureVars, hookVars>>

\* POST /api/{kind}s/{key}/publish, steps 1 and 2: load the draft and validate
\* its body against the schema. Clients are
\* interchangeable: a new request takes the first free client.
PublishLoad(c, kind, key) ==
    /\ reqs[c].pc = "idle"
    /\ \A d \in Clients : d < c => reqs[d].pc # "idle"
    /\ Cardinality(PublishedRows(store, kind, key)) + Cardinality(InFlight(kind, key))
          < MaxVersions
    /\ IF ~HasDraft(store, kind, key)
       THEN Fail(c, "NotFound", {})
       ELSE LET body == getDraft(store, kind, key).body
            IN  IF ~SchemaValid(kind, body)
                THEN Fail(c, "SchemaInvalid", {})
                ELSE Proceed(c, "load",
                             [IdleRequest EXCEPT !.kind = kind, !.key = key, !.body = body])
    /\ UNCHANGED store
    /\ UNCHANGED <<rtVars, pureVars, hookVars>>

\* Step 3: referential integrity (wizards only).
PublishCheckRefs(c) ==
    /\ reqs[c].pc = "refs"
    /\ LET missing == IF reqs[c].kind = "wizard"
                      THEN MissingRefs(store, reqs[c].body)
                      ELSE {}
       IN  IF missing = {}
           THEN Proceed(c, "refs", reqs[c])
           ELSE Fail(c, "ReferentialIntegrityFailed", missing)
    /\ UNCHANGED store
    /\ UNCHANGED <<rtVars, pureVars, hookVars>>

\* Step 4: version assignment and commit.
PublishCommit(c) ==
    /\ reqs[c].pc = "commit"
    /\ LET r == reqs[c]
       IN  /\ store' = createNextPublishedVersion(store, r.kind, r.key, r.body)
           /\ Proceed(c, "commit",
                      [r EXCEPT !.version = VersionTag(NextVersionNumber(store, r.kind, r.key))])
    /\ UNCHANGED <<rtVars, pureVars, hookVars>>

\* The initial state of the zustand store, an unmounted runner and a backend
\* without sessions.
NoWizard == [wizard_key |-> "", version |-> "", steps |-> <<>>]

NoPages == [ref \in {} |-> <<>>]

EmptyState == {}

NoProps == [pc |-> "idle", version |-> "", sessionId |-> 0, prefill |-> EmptyState]

EngineInit ==
    /\ wizard = NoWizard
    /\ pages = NoPages
    /\ sessionId = 0
    /\ currentStep = ""
    /\ stepHistory = <<>>
    /\ sessionState = EmptyState
    /\ isLoading = FALSE
    /\ error = ""

\* No pure function is being called.
PureIdle ==
    /\ heap = <<>>
    /\ call = [op |-> "none"]

\* No executeStepHooks call yet.
NoBatch ==
    [pc |-> "idle", step |-> "", hooks |-> <<>>, invoked |-> <<>>, allUpdates |-> <<>>,
     enteredBy |-> "none", sessionState |-> {}, bound |-> {}]

HooksIdle ==
    /\ effectDeps = <<"", NoWizard>>
    /\ batch = NoBatch

RuntimeInit ==
    /\ EngineInit
    /\ runner = NoProps
    /\ sessions = <<>>
    /\ patches = {}
    /\ lastCall = "none"
    /\ freshNav = FALSE

StoreInit ==
    /\ store = [wizard |-> {}, page |-> {}]
    /\ reqs = [c \in Clients |-> IdleRequest]
    /\ resp = Response("none", "ok", {}, "")
    /\ pubCount = [k \in StoreKeys |-> 0]
    /\ RuntimeInit
    /\ PureIdle
    /\ HooksIdle

StoreNext ==
    \/ \E kind \in Kinds : \E key \in KeysOf(kind) : \E body \in BodiesOf(kind) :
          ApiCreateDraft(kind, key, body)
    \/ \E kind \in Kinds : \E key \in KeysOf(kind) : \E body \in BodiesOf(kind) :
          ApiUpdateDraft(kind, key, body)
    \/ \E kind \in Kinds : \E key \in KeysOf(kind) : ApiDeleteDraft(kind, key)
    \/ \E c \in Clients : \E kind \in Kinds : \E key \in KeysOf(kind) : PublishLoad(c, kind, key)
    \/ \E c \in Clients : PublishCheckRefs(c)
    \/ \E c \in Clients : PublishCommit(c)

\* The definition store under concurrent authors.
SpecStore == StoreInit /\ [][StoreNext]_vars

----------------------------------------------------------------------------
(* Runtime: page loader (pageLoader.ts) and runtime API reads *)

\* parsePageRef: "page.travel.selectPlan@v1" is split at "@"; anything but two
\* parts throws.
parsePageRef(pageRef) ==
    LET parts == Split(pageRef, "@")
    IN  IF Len(parts) # 2
        THEN [ok |-> FALSE, pageKey |-> "", version |-> ""]
        ELSE [ok |-> TRUE, pageKey |-> Join(parts[1]), version |-> Join(parts[2])]

\* runtimeApi.loadPageVersion: GET /api/pages/{pageKey}/versions/{version}.
loadPageVersionOk(st, pageKey, version) == HasPublished(st, "page", pageKey, version)

\* The unique pageRefs of the steps, as loadWizardPages collects them.
WizardPageRefs(steps) == { steps[i].pageRef : i \in { j \in 1..Len(steps) : steps[j].pageRef # NoRef } }

\* loadWizardPages: every reference is parsed and loaded; one failure rejects
\* the whole load.
loadWizardPagesOk(st, steps) ==
    \A ref \in WizardPageRefs(steps) :
        /\ parsePageRef(ref).ok
        /\ loadPageVersionOk(st, parsePageRef(ref).pageKey, parsePageRef(ref).version)

\* The page response: metadata and definition.
PageDefinition(row) == [page_key |-> row.key, version |-> row.version, fields |-> row.body]

LoadPageLatest(st, pageKey, version) ==
    PageDefinition(getLatestPublished(st, "page", pageKey))

\* runtimeApi.loadPageVersion, the page a successful request returns.
loadPageVersion(st, pageKey, version) ==
    PageDefinition(getPublished(st, "page", pageKey, version))

\* loadWizardPages: the map pageRef -> page definition.
loadWizardPages(st, steps) ==
    [ref \in WizardPageRefs(steps) |->
        loadPageVersion(st, parsePageRef(ref).pageKey, parsePageRef(ref).version)]

\* getPageForStep: the page of a step with a pageRef; NoPage for null.
NoPage == [page_key |-> "", version |-> "", fields |-> <<>>]

getPageForStep(step, pagesMap) ==
    IF step.pageRef = NoRef THEN NoPage
    ELSE IF step.pageRef \in DOMAIN pagesMap THEN pagesMap[step.pageRef]
    ELSE NoPage

WizardDefinition(row) == [wizard_key |-> row.key, version |-> row.version, steps |-> row.body]

\* runtimeApi.loadWizard: GET /api/wizards/{wizardKey}/latest.
apiLoadWizard(st, wizardKey) ==
    IF HasAnyPublished(st, "wizard", wizardKey)
    THEN [ok |-> TRUE, wizard |-> WizardDefinition(getLatestPublished(st, "wizard", wizardKey))]
    ELSE [ok |-> FALSE, wizard |-> NoWizard]

\* runtimeApi.loadWizardVersion: GET /api/wizards/{wizardKey}/versions/{version}.
apiLoadWizardVersion(st, wizardKey, version) ==
    IF HasPublished(st, "wizard", wizardKey, version)
    THEN [ok |-> TRUE, wizard |-> WizardDefinition(getPublished(st, "wizard", wizardKey, version))]
    ELSE [ok |-> FALSE, wizard |-> NoWizard]

\* wizardStore.loadWizard, what its try block computes: the pinned version if
\* one is given and the latest otherwise, then the pages.
loadWizard(st, wizardKey, version) ==
    LET r == IF version # ""
             THEN apiLoadWizardVersion(st, wizardKey, version)
             ELSE apiLoadWizard(st, wizardKey)
    IN  IF r.ok /\ loadWizardPagesOk(st, r.wizard.steps)
        THEN [ok |-> TRUE, wizard |-> r.wizard, pages |-> loadWizardPages(st, r.wizard.steps)]
        ELSE [ok |-> FALSE, wizard |-> NoWizard, pages |-> NoPages]

----------------------------------------------------------------------------
(* Runtime: routing (getNextStepId) and the navigation of wizardStore *)

StepIds(steps) == { steps[i].id : i \in 1..Len(steps) }

\* Array.findIndex, counting from 1; 0 when no step has the id.
findIndex(steps, stepId) ==
    IF stepId \in StepIds(steps)
    THEN CHOOSE i \in 1..Len(steps) :
            steps[i].id = stepId /\ \A j \in 1..(i - 1) : steps[j].id # stepId
    ELSE 0

\* getNextStepIdLinear; "" for null.
getNextStepIdLinear(steps, currentStepId) ==
    LET currentIndex == findIndex(steps, currentStepId)
    IN  IF currentIndex = 0 \/ currentIndex = Len(steps)
        THEN ""
        ELSE steps[currentIndex + 1].id

isLastStep(steps, currentStepId) == getNextStepIdLinear(steps, currentStepId) = ""

canGoBack(history) == Len(history) > 0

GoToStepReplacing(cur, history, stepId) ==
    [currentStep |-> stepId, stepHistory |-> history]

\* wizardStore.goToStep: the step pointer and history it sets.
goToStep(cur, history, stepId) ==
    IF cur = ""
    THEN [currentStep |-> stepId, stepHistory |-> history]
    ELSE [currentStep |-> stepId, stepHistory |-> Append(history, cur)]

GoBackToStart(cur, history) ==
    IF Len(history) = 0
    THEN [currentStep |-> "", stepHistory |-> history]
    ELSE [currentStep |-> history[Len(history)],
          stepHistory |-> SubSeq(history, 1, Len(history) - 1)]

\* wizardStore.goBack: the step pointer and history it sets.
goBack(cur, history) ==
    IF Len(history) = 0
    THEN [currentStep |-> cur, stepHistory |-> history]
    ELSE [currentStep |-> history[Len(history)],
          stepHistory |-> SubSeq(history, 1, Len(history) - 1)]

----------------------------------------------------------------------------
(* Runtime: bounds and inputs *)

\* Sessions after which the model starts no new one.
MaxSessions == 1

\* Length of stepHistory beyond which the model navigates forward no more.
MaxHistory == 2

\* PATCH requests that may be in flight at the same time.
MaxInFlight == 2

\* The wizardId prop of the runner.
WizardId == "w"

\* The version prop: none (the latest version is loaded), a pinned version, or
\* a version that was never published.
VersionProps == {"", "v1", "v9"}

\* The prefillData prop.
Prefills == { { << <<"application", "name">>, "Ann" >> } }

\* Definitions published before the runtime is used: two versions of the page
\* and two of the wizard, the second with other steps than the first.
RuntimeDefinitions ==
    [wizard |-> { NewRow(<<"wizard", "w", 1>>, "w", "v1",
                         << Step("s1", <<"p", "@", "v1">>), Step("s2", NoRef),
                            Step("s3", <<"p", "@", "v2">>) >>),
                  NewRow(<<"wizard", "w", 2>>, "w", "v2",
                         << Step("t1", <<"p", "@", "v1">>), Step("t2", NoRef) >>) },
     page   |-> { NewRow(<<"page", "p", 1>>, "p", "v1", <<"select">>),
                  NewRow(<<"page", "p", 2>>, "p", "v2", <<"select", "text">>) }]


\* StepRouter renders the step and its Back / Next buttons.
StepShown ==
    /\ ~isLoading
    /\ error = ""
    /\ wizard # NoWizard
    /\ currentStep # ""
    /\ currentStep \in StepIds(wizard.steps)

----------------------------------------------------------------------------
(* Runtime: actions of WizardRunner and wizardStore *)

\* The init effect of WizardRunner starts: loadWizard sets isLoading and
\* clears error before its first await.
Mount(version, sid, prefill) ==
    /\ runner.pc = "idle"
    /\ sid = 0 => Len(sessions) < MaxSessions
    /\ runner' = [pc |-> "loadWizard", version |-> version, sessionId |-> sid, prefill |-> prefill]
    /\ isLoading' = TRUE
    /\ error' = ""
    /\ lastCall' = "mount"
    /\ UNCHANGED <<wizard, pages, sessionId, currentStep, stepHistory, sessionState>>
    /\ UNCHANGED <<sessions, patches, freshNav>>
    /\ UNCHANGED <<storeVars, pureVars, hookVars>>

\* loadWizard resumes after its awaits: the definition and pages are set, or
\* the error is; either way the init effect goes on to the session.
LoadWizardDone ==
    /\ runner.pc = "loadWizard"
    /\ LET r == loadWizard(store, WizardId, runner.version)
       IN  IF r.ok
           THEN /\ wizard' = r.wizard
                /\ pages' = r.pages
                /\ currentStep' = IF Len(r.wizard.steps) > 0 THEN r.wizard.steps[1].id ELSE ""
                /\ lastCall' = "loadWizard:ok"
                /\ freshNav' = (stepHistory = <<>> /\ Len(r.wizard.steps) > 0)
                /\ UNCHANGED error
           ELSE /\ error' = "Failed to load wizard"
                /\ lastCall' = "loadWizard:error"
                /\ freshNav' = FALSE
                /\ UNCHANGED <<wizard, pages, currentStep>>
    /\ isLoading' = FALSE
    /\ runner' = [runner EXCEPT !.pc = "session"]
    /\ UNCHANGED <<sessionId, stepHistory, sessionState, sessions, patches>>
    /\ UNCHANGED <<storeVars, pureVars, hookVars>>

\* runtimeApi.createSession: the record made from the request body.
NewSession(wizardKey, wizardVersion, prefill) ==
    [wizard_key |-> wizardKey, wizard_version |-> wizardVersion, status |-> "started",
     current_step |-> "", state |-> prefill]

\* createSession: throws without a wizard, else POSTs the session and keeps
\* its id and state.
CreateSession ==
    /\ runner.pc = "session"
    /\ runner.sessionId = 0
    /\ IF wizard = NoWizard
       THEN /\ lastCall' = "createSession:throw"
            /\ UNCHANGED <<sessions, sessionId, sessionState>>
       ELSE /\ sessions' = Append(sessions,
                                  NewSession(wizard.wizard_key, wizard.version, runner.prefill))
            /\ sessionId' = Len(sessions) + 1
            /\ sessionState' = runner.prefill
            /\ lastCall' = "createSession:ok"
    /\ runner' = NoProps
    /\ UNCHANGED <<wizard, pages, currentStep, stepHistory, isLoading, error, patches, freshNav>>
    /\ UNCHANGED <<storeVars, pureVars, hookVars>>

\* loadSession: GETs the session and restores id, state and current_step;
\* the history starts empty.
LoadSession ==
    /\ runner.pc = "session"
    /\ runner.sessionId # 0
    /\ IF runner.sessionId \in 1..Len(sessions)
       THEN /\ sessionId' = runner.sessionId
            /\ sessionState' = sessions[runner.sessionId].state
            /\ currentStep' = sessions[runner.sessionId].current_step
            /\ stepHistory' = <<>>
            /\ lastCall' = "loadSession:ok"
            /\ UNCHANGED error
       ELSE /\ error' = "Failed to load session"
            /\ lastCall' = "loadSession:error"
            /\ UNCHANGED <<sessionId, sessionState, currentStep, stepHistory>>
    /\ freshNav' = FALSE
    /\ runner' = NoProps
    /\ UNCHANGED <<wizard, pages, isLoading, sessions, patches>>
    /\ UNCHANGED <<storeVars, pureVars, hookVars>>

\* goNext (the Next / Complete button): nothing on the last step; else
\* goToStep, then a PATCH with the state read at the start and the new step.
GoNext ==
    /\ StepShown
    /\ LET nextStepId == getNextStepIdLinear(wizard.steps, currentStep)
           patch == [session_id |-> sessionId, state |-> sessionState, current_step |-> nextStepId]
       IN  IF nextStepId = ""
           THEN /\ lastCall' = "goNext:last"
                /\ UNCHANGED <<currentStep, stepHistory, patches>>
           ELSE /\ Len(stepHistory) < MaxHistory
                /\ Cardinality(patches \cup {patch}) <= MaxInFlight
                /\ currentStep' = goToStep(currentStep, stepHistory, nextStepId).currentStep
                /\ stepHistory' = goToStep(currentStep, stepHistory, nextStepId).stepHistory
                /\ patches' = IF sessionId # 0 THEN patches \cup {patch} ELSE patches
                /\ lastCall' = "goNext:moved"
    /\ UNCHANGED <<wizard, pages, sessionId, sessionState, isLoading, error>>
    /\ UNCHANGED <<runner, sessions, freshNav>>
    /\ UNCHANGED <<storeVars, pureVars, hookVars>>

\* goBack: nothing with an empty history; else the last entry becomes the
\* current step. Nothing is saved.
GoBack ==
    /\ StepShown
    /\ currentStep' = goBack(currentStep, stepHistory).currentStep
    /\ stepHistory' = goBack(currentStep, stepHistory).stepHistory
    /\ lastCall' = IF canGoBack(stepHistory) THEN "goBack:popped" ELSE "goBack:empty"
    /\ UNCHANGED <<wizard, pages, sessionId, sessionState, isLoading, error>>
    /\ UNCHANGED <<runner, sessions, patches, freshNav>>
    /\ UNCHANGED <<storeVars, pureVars, hookVars>>

\* The backend applies a PATCH: state and current_step of the session.
PatchApplied(p) ==
    /\ p \in patches
    /\ sessions' = IF p.session_id \in 1..Len(sessions)
                   THEN [sessions EXCEPT ![p.session_id].state = p.state,
                                         ![p.session_id].current_step = p.current_step]
                   ELSE sessions
    /\ patches' = patches \ {p}
    /\ UNCHANGED engineVars
    /\ UNCHANGED <<runner, lastCall, freshNav>>
    /\ UNCHANGED <<storeVars, pureVars, hookVars>>

\* A PATCH fails; goNext logs it and goes on.
PatchFailed(p) ==
    /\ p \in patches
    /\ patches' = patches \ {p}
    /\ UNCHANGED engineVars
    /\ UNCHANGED <<runner, sessions, lastCall, freshNav>>
    /\ UNCHANGED <<storeVars, pureVars, hookVars>>

\* The page is loaded anew: the store module is evaluated again.
Reload ==
    /\ wizard' = NoWizard
    /\ pages' = NoPages
    /\ sessionId' = 0
    /\ currentStep' = ""
    /\ stepHistory' = <<>>
    /\ sessionState' = EmptyState
    /\ isLoading' = FALSE
    /\ error' = ""
    /\ runner' = NoProps
    /\ lastCall' = "reload"
    /\ freshNav' = FALSE
    /\ UNCHANGED <<sessions, patches>>
    /\ UNCHANGED <<storeVars, pureVars, hookVars>>

RunnerInit ==
    /\ store = RuntimeDefinitions
    /\ reqs = [c \in Clients |-> IdleRequest]
    /\ resp = Response("none", "ok", {}, "")
    /\ pubCount = [k \in StoreKeys |-> 2]
    /\ RuntimeInit
    /\ PureIdle
    /\ HooksIdle

RunnerNext ==
    \/ \E version \in VersionProps : \E sid \in 0..MaxSessions : \E prefill \in Prefills :
          Mount(version, sid, prefill)
    \/ LoadWizardDone
    \/ CreateSession
    \/ LoadSession
    \/ GoNext
    \/ GoBack
    \/ \E p \in patches : PatchApplied(p)
    \/ \E p \in patches : PatchFailed(p)
    \/ Reload

\* The runtime against a backend with published definitions.
SpecRuntime == RunnerInit /\ [][RunnerNext]_vars

\* A backend in which the page has one published version and an edited draft,
\* and the wizard pins the published one.
PinningDefinitions ==
    [wizard |-> { NewRow(<<"wizard", "w", 1>>, "w", "v1",
                         << Step("s1", <<"p", "@", "v1">>), Step("s2", NoRef) >>) },
     page   |-> { NewRow(<<"page", "p", 1>>, "p", DRAFT, <<"select", "text">>),
                  NewRow(<<"page", "p", 2>>, "p", "v1", <<"select">>) }]

PinningInit ==
    /\ store = PinningDefinitions
    /\ reqs = [c \in Clients |-> IdleRequest]
    /\ resp = Response("none", "ok", {}, "")
    /\ pubCount = [k \in StoreKeys |-> 1]
    /\ RuntimeInit
    /\ PureIdle
    /\ HooksIdle

PinningNext ==
    \/ \E version \in VersionProps : \E prefill \in Prefills : Mount(version, 0, prefill)
    \/ LoadWizardDone
    \/ CreateSession
    \/ GoNext
    \/ GoBack
    \/ \E p \in patches : PatchApplied(p)
    \/ Reload
    \/ \E body \in PageBodies : ApiUpdateDraft("page", "p", body)
    \/ \E c \in Clients : PublishLoad(c, "page", "p")
    \/ \E c \in Clients : PublishCheckRefs(c)
    \/ \E c \in Clients : PublishCommit(c)

\* Sessions start and run while new versions of the page are published.
SpecPinning == PinningInit /\ [][PinningNext]_vars

OverlapNext ==
    \/ \E version \in VersionProps : \E sid \in 0..MaxSessions : \E prefill \in Prefills :
          Mount(version, sid, prefill)
    \/ LoadWizardDone
    \/ CreateSession
    \/ LoadSession
    \/ GoNext
    \/ GoBack
    \/ \E p \in patches : PatchApplied(p)
    \/ Reload

\* The runtime against a backend on which every update request succeeds, in
\* whatever order the backend processes the requests in flight.
SpecOverlap == RunnerInit /\ [][OverlapNext]_vars

----------------------------------------------------------------------------
(* Path functions: runtime/jsonpath (getJsonPath, setJsonPath) and the SDK  *)
(* (getByPath, setByPath, deleteByPath, hasPath)                            *)

\* JavaScript values.  An object is a reference into the heap, so that a write
\* through one reference is seen through every other one.
Undefined == [type |-> "undefined", str |-> "", ref |-> 0]

Null == [type |-> "null", str |-> "", ref |-> 0]

Str(s) == [type |-> "string", str |-> s, ref |-> 0]

Bool(b) == [type |-> "boolean", str |-> IF b THEN "true" ELSE "false", ref |-> 0]

Obj(r) == [type |-> "object", str |-> "", ref |-> r]

\* {}
EmptyObject == [k \in {} |-> Undefined]

\* typeof v === 'object' (true of null as well).
typeofObject(v) == v.type \in {"object", "null"}

\* current[part]: a property of an object, undefined on a string.
Prop(h, v, part) ==
    IF v.type = "object" /\ part \in DOMAIN h[v.ref] THEN h[v.ref][part] ELSE Undefined

\* { ...v }: a new object with the own properties of v, none for null / undefined.
Spread(h, v) == IF v.type = "object" THEN h[v.ref] ELSE EmptyObject

\* current[part] = v
Put(h, cur, part, v) == [h EXCEPT ![cur] = (part :> v) @@ @]

\* delete current[part]
Delete(h, cur, part) == [h EXCEPT ![cur] = [k \in DOMAIN @ \ {part} |-> @[k]]]

\* The outcome of a path function: it threw, or it returned `value` and left
\* the heap as `heap`.
Returned(h, v) == [threw |-> FALSE, heap |-> h, value |-> v]

Threw(h) == [threw |-> TRUE, heap |-> h, value |-> Undefined]

\* path.startsWith('$.')
StartsWithRoot(path) == Len(path) >= 2 /\ path[1] = "$" /\ path[2] = "."

\* path.replace(/^\$\./, '').split('.'), each part joined back to a string.
PartsOf(path) ==
    LET rest  == IF StartsWithRoot(path) THEN SubSeq(path, 3, Len(path)) ELSE path
        parts == Split(rest, ".")
    IN  [i \in 1..Len(parts) |-> Join(parts[i])]

\* path.split('.')
DotParts(path) ==
    LET parts == Split(path, ".")
    IN  [i \in 1..Len(parts) |-> Join(parts[i])]

ArraySyntax == {"[", "]", "(", ")", "*"}

dangerousKeys == {"__proto__", "constructor", "prototype"}

\* validatePath: TRUE when it returns, FALSE when it throws.
validatePath(path) ==
    /\ path = <<"$">> \/ StartsWithRoot(path)
    /\ \A i \in 1..Len(path) : path[i] \notin ArraySyntax
    /\ \A i \in 1..(Len(path) - 1) : ~(path[i] = "." /\ path[i + 1] = ".")
    /\ \A i \in 1..Len(PartsOf(path)) : PartsOf(path)[i] \notin dangerousKeys

RECURSIVE GetJsonWalk(_, _, _, _)
\* The loop of getJsonPath from part i on.
GetJsonWalk(h, current, parts, i) ==
    IF i > Len(parts) THEN current
    ELSE IF current.type \in {"null", "undefined"} THEN Undefined
    ELSE GetJsonWalk(h, Prop(h, current, parts[i]), parts, i + 1)

getJsonPath(h, obj, path) ==
    IF path = <<>> \/ path = <<"$">> THEN Returned(h, obj)
    ELSE IF ~validatePath(path) THEN Threw(h)
    ELSE Returned(h, GetJsonWalk(h, obj, PartsOf(path), 1))

SetJsonStepDetached(h, cur, part) ==
    LET h1 == Append(h, EmptyObject)
    IN  [heap |-> h1, ref |-> Len(h1)]

SetJsonStepShared(h, cur, part) ==
    IF part \in DOMAIN h[cur] /\ h[cur][part].type = "object"
    THEN [heap |-> h, ref |-> h[cur][part].ref]
    ELSE [heap |-> Put(Append(h, EmptyObject), cur, part, Obj(Len(h) + 1)), ref |-> Len(h) + 1]

\* One round of the loop of setJsonPath: current[part] becomes {} or a copy of
\* itself, and current moves to it.
SetJsonStep(h, cur, part) ==
    LET node == IF part \notin DOMAIN h[cur] \/ ~typeofObject(h[cur][part])
                THEN EmptyObject
                ELSE Spread(h, h[cur][part])
        h1   == Append(h, node)
    IN  [heap |-> Put(h1, cur, part, Obj(Len(h1))), ref |-> Len(h1)]

RECURSIVE SetJsonWalk(_, _, _, _, _)
\* The loop of setJsonPath from part i on, and the assignment after it.
SetJsonWalk(h, cur, parts, i, value) ==
    IF i >= Len(parts) THEN Put(h, cur, parts[Len(parts)], value)
    ELSE LET step == SetJsonStep(h, cur, parts[i])
         IN  SetJsonWalk(step.heap, step.ref, parts, i + 1, value)

setJsonPath(h, obj, path, value) ==
    IF path = <<>> \/ path = <<"$">> THEN Returned(h, value)
    ELSE IF ~validatePath(path) THEN Threw(h)
    ELSE LET h1 == Append(h, Spread(h, obj))
         IN  Returned(SetJsonWalk(h1, Len(h1), PartsOf(path), 1, value), Obj(Len(h1)))

RECURSIVE GetByWalk(_, _, _, _)
\* The loop of getByPath from part i on.
GetByWalk(h, current, parts, i) ==
    IF i > Len(parts) THEN current
    ELSE IF current.type \in {"null", "undefined"} THEN Undefined
    ELSE IF current.type # "object" THEN Undefined
    ELSE GetByWalk(h, Prop(h, current, parts[i]), parts, i + 1)

getByPath(h, obj, path) ==
    IF path = <<>> THEN Returned(h, Undefined)
    ELSE Returned(h, GetByWalk(h, obj, DotParts(path), 1))

\* One round of the loop of setByPath.
SetByStep(h, cur, part) ==
    LET old  == Prop(h, Obj(cur), part)
        node == IF old = Undefined \/ ~typeofObject(old) THEN EmptyObject ELSE Spread(h, old)
        h1   == Append(h, node)
    IN  [heap |-> Put(h1, cur, part, Obj(Len(h1))), ref |-> Len(h1)]

RECURSIVE SetByWalk(_, _, _, _, _)
\* The loop of setByPath from part i on, and the assignment after it.
SetByWalk(h, cur, parts, i, value) ==
    IF i >= Len(parts) THEN Put(h, cur, parts[Len(parts)], value)
    ELSE LET step == SetByStep(h, cur, parts[i])
         IN  SetByWalk(step.heap, step.ref, parts, i + 1, value)

setByPath(h, obj, path, value) ==
    IF path = <<>> THEN Returned(h, obj)
    ELSE LET h1 == Append(h, Spread(h, obj))
         IN  Returned(SetByWalk(h1, Len(h1), DotParts(path), 1, value), Obj(Len(h1)))

RECURSIVE DeleteByWalk(_, _, _, _)
\* The loop of deleteByPath from part i on, and the delete after it.
DeleteByWalk(h, cur, parts, i) ==
    IF i >= Len(parts) THEN Delete(h, cur, parts[Len(parts)])
    ELSE LET old == Prop(h, Obj(cur), parts[i])
         IN  IF old = Undefined \/ ~typeofObject(old) THEN h
             ELSE LET h1 == Append(h, Spread(h, old))
                  IN  DeleteByWalk(Put(h1, cur, parts[i], Obj(Len(h1))), Len(h1), parts, i + 1)

deleteByPath(h, obj, path) ==
    IF path = <<>> THEN Returned(h, obj)
    ELSE LET h1 == Append(h, Spread(h, obj))
         IN  Returned(DeleteByWalk(h1, Len(h1), DotParts(path), 1), Obj(Len(h1)))

hasPath(h, obj, path) == Returned(h, Bool(getByPath(h, obj, path).value # Undefined))

----------------------------------------------------------------------------
(* Path functions: inputs and calls *)

\* The caller's objects: the tree at reference 1, with an object, a null and a
\* string among its properties, and an object of its own at reference 4.
TreeHeap ==
    << ("a" :> Obj(2)) @@ ("n" :> Null) @@ ("s" :> Str("x")),
       ("b" :> Str("old")) @@ ("c" :> Obj(3)),
       ("b" :> Str("deep")),
       ("b" :> Str("other")) >>

EmptyTreeHeap == << EmptyObject, EmptyObject, EmptyObject, ("b" :> Str("other")) >>

Root == Obj(1)

Values == {Undefined, Null, Str("v"), Obj(4)}

\* Identifier segments: properties that are there (a, b, c, n, s) or not (m).
Segments == {"a", "b", "n", "s", "m"}

\* "x", "x.y" and "x.y.z"
DotPaths(segs) ==
    { <<x>> : x \in segs }
        \cup { <<x, ".", y>> : x \in segs, y \in segs }
        \cup { <<x, ".", y, ".", z>> : x \in {"a", "m"}, y \in segs, z \in {"b"} }

\* What a path must not contain.
Forbidden == {"__proto__", "constructor", "prototype", "*"}

ForbiddenPaths ==
    { p \in DotPaths({"a", "b"} \cup Forbidden) : \E i \in 1..Len(p) : p[i] \in Forbidden }
        \cup { <<"a", ".", ".", "b">>, <<".", ".", "a">>, <<"a", ".", ".">> }

\* The paths of the calls, in both grammars: with the root sentinel and bare.
Paths ==
    LET bare == DotPaths(Segments) \cup ForbiddenPaths
    IN  bare \cup { <<"$", ".">> \o p : p \in bare }
             \cup { <<>>, <<"$">>, <<"$", ".">>, <<"$", "a">>, <<"$", ".", "a", ".">> }

\* Properties every object inherits; the objects of the heap have own properties only.
Inherited == {"__proto__", "constructor"}

OwnOnly(path) == \A i \in 1..Len(path) : path[i] \notin Inherited

NewCall(path, value) ==
    [op |-> "none", path |-> path, value |-> value, before |-> <<>>,
     threw |-> FALSE, out |-> Undefined, got |-> Undefined]

Ran(op, r) == [call EXCEPT !.op = op, !.before = heap, !.threw = r.threw, !.out = r.value]

PathInit ==
    /\ store = [wizard |-> {}, page |-> {}]
    /\ reqs = [c \in Clients |-> IdleRequest]
    /\ resp = Response("none", "ok", {}, "")
    /\ pubCount = [k \in StoreKeys |-> 0]
    /\ RuntimeInit
    /\ HooksIdle
    /\ heap \in {TreeHeap, EmptyTreeHeap}
    /\ \E path \in Paths : \E value \in Values : call = NewCall(path, value)

CallGetJsonPath ==
    /\ call.op = "none"
    /\ LET r == getJsonPath(heap, Root, call.path)
       IN  heap' = r.heap /\ call' = Ran("getJsonPath", r)
    /\ UNCHANGED <<storeVars, rtVars, hookVars>>

CallSetJsonPath ==
    /\ call.op = "none"
    /\ LET r == setJsonPath(heap, Root, call.path, call.value)
       IN  heap' = r.heap /\ call' = Ran("setJsonPath", r)
    /\ UNCHANGED <<storeVars, rtVars, hookVars>>

\* getJsonPath(setJsonPath(t, p, v), p)
CallGetJsonPathOfSet ==
    /\ call.op = "setJsonPath"
    /\ ~call.threw
    /\ LET r == getJsonPath(heap, call.out, call.path)
       IN  /\ heap' = r.heap
           /\ call' = [call EXCEPT !.op = "setJsonPath;getJsonPath", !.threw = r.threw, !.got = r.value]
    /\ UNCHANGED <<storeVars, rtVars, hookVars>>

CallGetByPath ==
    /\ call.op = "none"
    /\ OwnOnly(call.path)
    /\ LET r == getByPath(heap, Root, call.path)
       IN  heap' = r.heap /\ call' = Ran("getByPath", r)
    /\ UNCHANGED <<storeVars, rtVars, hookVars>>

CallSetByPath ==
    /\ call.op = "none"
    /\ OwnOnly(call.path)
    /\ LET r == setByPath(heap, Root, call.path, call.value)
       IN  heap' = r.heap /\ call' = Ran("setByPath", r)
    /\ UNCHANGED <<storeVars, rtVars, hookVars>>

\* getByPath(setByPath(t, p, v), p)
CallGetByPathOfSet ==
    /\ call.op = "setByPath"
    /\ LET r == getByPath(heap, call.out, call.path)
       IN  /\ heap' = r.heap
           /\ call' = [call EXCEPT !.op = "setByPath;getByPath", !.threw = r.threw, !.got = r.value]
    /\ UNCHANGED <<storeVars, rtVars, hookVars>>

CallDeleteByPath ==
    /\ call.op = "none"
    /\ OwnOnly(call.path)
    /\ LET r == deleteByPath(heap, Root, call.path)
       IN  heap' = r.heap /\ call' = Ran("deleteByPath", r)
    /\ UNCHANGED <<storeVars, rtVars, hookVars>>

CallHasPath ==
    /\ call.op = "none"
    /\ OwnOnly(call.path)
    /\ LET r == hasPath(heap, Root, call.path)
       IN  heap' = r.heap /\ call' = Ran("hasPath", r)
    /\ UNCHANGED <<storeVars, rtVars, hookVars>>

PathNext ==
    \/ CallGetJsonPath
    \/ CallSetJsonPath
    \/ CallGetJsonPathOfSet
    \/ CallGetByPath
    \/ CallSetByPath
    \/ CallGetByPathOfSet
    \/ CallDeleteByPath
    \/ CallHasPath

\* One call of a path function on every tree, path and value of the inputs.
SpecPaths == PathInit /\ [][PathNext]_vars

----------------------------------------------------------------------------
(* Condition evaluator: evaluateCondition and the type guards of the SDK *)

\* 'field' in condition && 'operator' in condition
isSimpleCondition(condition) == {"field", "operator"} \subseteq DOMAIN condition

\* 'logic' in condition && 'conditions' in condition
isCompoundCondition(condition) == {"logic", "conditions"} \subseteq DOMAIN condition

\* The operators of the conditions evaluated here; any other string is the
\* default case.
evaluateSimpleCondition(condition, h, data) ==
    LET fieldValue   == getByPath(h, data, condition.field).value
        compareValue == condition.value
    IN  CASE condition.operator = "eq"       -> fieldValue = compareValue
          [] condition.operator = "neq"      -> fieldValue # compareValue
          [] condition.operator = "empty"    -> fieldValue \in {Undefined, Null, Str("")}
          [] condition.operator = "notEmpty" -> fieldValue \notin {Undefined, Null, Str("")}
          [] OTHER                           -> FALSE

EveryButEmpty(results) == results # <<>> /\ \A i \in 1..Len(results) : results[i]

\* results.every((r) => r)
every(results) == \A i \in 1..Len(results) : results[i]

\* results.some((r) => r)
some(results) == \E i \in 1..Len(results) : results[i]

RECURSIVE evaluateCondition(_, _, _)
evaluateCompoundCondition(condition, h, data) ==
    LET results == [i \in 1..Len(condition.conditions) |->
                       evaluateCondition(condition.conditions[i], h, data)]
    IN  IF condition.logic = "and" THEN every(results)
        ELSE IF condition.logic = "or" THEN some(results)
        ELSE FALSE

evaluateCondition(condition, h, data) ==
    IF isCompoundCondition(condition) THEN evaluateCompoundCondition(condition, h, data)
    ELSE IF isSimpleCondition(condition) THEN evaluateSimpleCondition(condition, h, data)
    ELSE FALSE

\* How a value of `conditions` that is not an array is written: a string, a
\* number, null or an object there has no map function.
NotAnArray == << [notArray |-> TRUE] >>

RECURSIVE evaluateConditionRaises(_)
\* evaluateCondition ends with a TypeError instead of a boolean: the `in` of
\* the type guards is applied to a value that is no object (null or a
\* primitive, written as a value record), condition.conditions.map is called
\* on a value that is no array, or the evaluation of a child, which map runs
\* for every child, does so.
evaluateConditionRaises(condition) ==
    IF "type" \in DOMAIN condition THEN condition.type # "object"
    ELSE IF isCompoundCondition(condition)
    THEN \/ condition.conditions = NotAnArray
         \/ \E i \in 1..Len(condition.conditions) :
               evaluateConditionRaises(condition.conditions[i])
    ELSE FALSE

\* Conditions on the tree of TreeHeap without children: true, false, with an
\* operator that is none of the evaluator's, and an object that is no condition.
LeafConditions ==
    { [field |-> <<"a", ".", "b">>, operator |-> "eq", value |-> Str("old")],
      [field |-> <<"a", ".", "b">>, operator |-> "neq", value |-> Str("old")],
      [field |-> <<"m">>, operator |-> "empty", value |-> Undefined],
      [field |-> <<"a", ".", "b">>, operator |-> "like", value |-> Str("old")],
      [logic |-> "and"] }

\* The lists of none, one or two of the conditions of S.
ListsOf(S) == {<<>>} \cup { <<x>> : x \in S } \cup { <<x, y>> : x \in S, y \in S }

CompoundOf(S) == { [logic |-> l, conditions |-> cs] : l \in {"and", "or", "xor"}, cs \in ListsOf(S) }

\* Leaves, compounds of leaves, and compounds of those and leaves; leaves
\* whose field is written with the root sentinel, as binds and hook patches
\* write paths; and values that are no well-formed condition: null, a string,
\* a compound whose `conditions` is no array, and compounds with null among
\* the children.
Conditions ==
    LET flat      == CompoundOf(LeafConditions)
        sentinel  == { [field |-> <<"$", ".", "a", ".", "b">>, operator |-> op, value |-> Str("old")] :
                          op \in {"eq", "neq"} }
                     \cup { [field |-> <<"$", ".", "s">>, operator |-> op, value |-> Undefined] :
                          op \in {"empty", "notEmpty"} }
        leaf      == [field |-> <<"a", ".", "b">>, operator |-> "eq", value |-> Str("old")]
        malformed == { Null, Str("x"),
                       [logic |-> "and", conditions |-> NotAnArray],
                       [logic |-> "and", conditions |-> <<Null>>],
                       [logic |-> "or", conditions |-> <<leaf, Null>>],
                       [logic |-> "or",
                        conditions |-> <<leaf, [logic |-> "xor", conditions |-> NotAnArray]>>] }
    IN  LeafConditions \cup flat \cup CompoundOf(flat \cup {[logic |-> "and"]})
            \cup sentinel \cup malformed

ConditionInit ==
    /\ store = [wizard |-> {}, page |-> {}]
    /\ reqs = [c \in Clients |-> IdleRequest]
    /\ resp = Response("none", "ok", {}, "")
    /\ pubCount = [k \in StoreKeys |-> 0]
    /\ RuntimeInit
    /\ HooksIdle
    /\ heap = TreeHeap
    /\ \E condition \in Conditions :
          call = [op |-> "none", condition |-> condition, threw |-> FALSE, result |-> FALSE]

CallEvaluateCondition ==
    /\ call.op = "none"
    /\ call' = IF evaluateConditionRaises(call.condition)
               THEN [call EXCEPT !.op = "evaluateCondition", !.threw = TRUE]
               ELSE [call EXCEPT !.op = "evaluateCondition",
                                 !.result = evaluateCondition(call.condition, heap, Root)]
    /\ UNCHANGED <<storeVars, rtVars, heap, hookVars>>

\* One evaluation of every condition of the inputs.
SpecConditions == ConditionInit /\ [][CallEvaluateCondition]_vars

----------------------------------------------------------------------------
(* Hooks: the onEnter effect of StepRouter and executeStepHooks *)

\* setJsonPath throws: the path is neither empty nor "$" and validatePath
\* rejects it.
setJsonPathThrows(path) == path # <<>> /\ path # <<"$">> /\ ~validatePath(path)

\* setJsonPath on a state tree given by its leaves.  For the empty path and
\* for "$" the value is returned in place of the tree ("{}" is the object
\* without properties, a tree without leaves).  Otherwise what lies at the
\* path, below it, or in place of one of its intermediate nodes goes, and the
\* value comes.
setJsonPathLeaves(state, path, value) ==
    LET parts == PartsOf(path)
        IsPrefix(p, q) == Len(p) <= Len(q) /\ SubSeq(q, 1, Len(p)) = p
    IN  IF path = <<>> \/ path = <<"$">>
        THEN IF value = "{}" THEN {} ELSE { << <<>>, value >> }
        ELSE { l \in state : ~IsPrefix(l[1], parts) /\ ~IsPrefix(parts, l[1]) }
                \cup { <<parts, value>> }

\* The updates applied to the state the effect read when the batch started.
ApplyToSnapshot(state, updates) ==
    LET RECURSIVE loop(_, _)
        loop(newSessionState, i) ==
            IF i > Len(updates) THEN newSessionState
            ELSE loop(setJsonPathLeaves(newSessionState, updates[i].path, updates[i].value),
                      i + 1)
    IN  IF \E i \in 1..Len(updates) : setJsonPathThrows(updates[i].path)
        THEN state
        ELSE loop(batch.sessionState, 1)

\* wizardStore.applyStateUpdates: one set() whose callback runs setJsonPath
\* over the updates in order.  When a setJsonPath throws, the callback throws
\* and set() stores nothing: the state stays what it was.
applyStateUpdates(state, updates) ==
    LET RECURSIVE loop(_, _)
        loop(newSessionState, i) ==
            IF i > Len(updates) THEN newSessionState
            ELSE loop(setJsonPathLeaves(newSessionState, updates[i].path, updates[i].value),
                      i + 1)
    IN  IF \E i \in 1..Len(updates) : setJsonPathThrows(updates[i].path)
        THEN state
        ELSE loop(state, 1)

\* What executeHook may resolve to for a hook: success without updates (all
\* that the stub of this version returns), success with a patch, and
\* failure.  h1 patches a path of its own; h2 patches the same path with
\* another value; h3 patches the empty path, or a path without the root
\* sentinel.
HookResults(hook) ==
    LET Patch(path, value) ==
            [success |-> TRUE, stateUpdates |-> << [path |-> path, value |-> value] >>]
    IN  { [success |-> TRUE, stateUpdates |-> <<>>],
          [success |-> FALSE, stateUpdates |-> <<>>] }
        \cup
        CASE hook = "h1" -> { Patch(<<"$", ".", "context", ".", "h1">>, "set") }
          [] hook = "h2" -> { Patch(<<"$", ".", "context", ".", "h1">>, "reset") }
          [] OTHER       -> { Patch(<<>>, "{}"), Patch(<<"context", ".", "h3">>, "set") }

\* A published wizard whose steps carry onEnter hooks: one, three and none.
HookDefinitions ==
    [wizard |-> { NewRow(<<"wizard", "w", 1>>, "w", "v1",
                         << [id |-> "s1", pageRef |-> NoRef, onEnter |-> <<"h1">>],
                            [id |-> "s2", pageRef |-> NoRef, onEnter |-> <<"h1", "h2", "h3">>],
                            [id |-> "s3", pageRef |-> NoRef] >>) },
     page   |-> {}]

HookInit ==
    /\ store = HookDefinitions
    /\ reqs = [c \in Clients |-> IdleRequest]
    /\ resp = Response("none", "ok", {}, "")
    /\ pubCount = [k \in StoreKeys |-> 1]
    /\ RuntimeInit
    /\ PureIdle
    /\ HooksIdle

\* The effect of StepRouter, run when currentStep or wizard changed since it
\* last ran: it starts executeStepHooks on the onEnter hooks of the step.
\* It reads sessionState once and hands it to executeStepHooks.  `enteredBy`
\* notes the handler that ran last, `bound` what setStateAtPath writes while
\* the batch runs.  One batch runs at a time.
OnEnterEffect ==
    /\ effectDeps # <<currentStep, wizard>>
    /\ batch.pc # "running"
    /\ effectDeps' = <<currentStep, wizard>>
    /\ LET i == findIndex(wizard.steps, currentStep)
       IN  IF currentStep = "" \/ wizard = NoWizard \/ i = 0
           THEN UNCHANGED batch
           ELSE IF "onEnter" \in DOMAIN wizard.steps[i] /\ Len(wizard.steps[i].onEnter) > 0
                THEN batch' = [pc |-> "running", step |-> currentStep,
                               hooks |-> wizard.steps[i].onEnter, invoked |-> <<>>,
                               allUpdates |-> <<>>, enteredBy |-> lastCall,
                               sessionState |-> sessionState, bound |-> {}]
                ELSE UNCHANGED batch
    /\ UNCHANGED <<storeVars, rtVars, pureVars>>

\* One round of the loop of executeStepHooks: the next hook resolves.  On a
\* failure the function throws and the effect logs the error; after the last
\* hook it returns all updates and the effect applies them; when applying
\* throws, the same catch logs the error.
ExecuteHook(result) ==
    /\ batch.pc = "running"
    /\ LET hook    == batch.hooks[Len(batch.invoked) + 1]
           updates == batch.allUpdates \o result.stateUpdates
       IN  /\ result \in HookResults(hook)
           /\ IF ~result.success
              THEN /\ batch' = [batch EXCEPT !.pc = "threw", !.invoked = Append(@, hook)]
                   /\ UNCHANGED sessionState
              ELSE IF Len(batch.invoked) + 1 = Len(batch.hooks)
              THEN /\ batch' = [batch EXCEPT
                                  !.pc = IF \E i \in 1..Len(updates) :
                                                setJsonPathThrows(updates[i].path)
                                         THEN "applyThrew" ELSE "applied",
                                  !.invoked = Append(@, hook),
                                  !.allUpdates = updates]
                   /\ sessionState' = applyStateUpdates(sessionState, updates)
              ELSE /\ batch' = [batch EXCEPT !.invoked = Append(@, hook), !.allUpdates = updates]
                   /\ UNCHANGED sessionState
    /\ UNCHANGED <<wizard, pages, sessionId, currentStep, stepHistory, isLoading, error>>
    /\ UNCHANGED <<runner, sessions, patches, lastCall, freshNav>>
    /\ UNCHANGED <<storeVars, pureVars, effectDeps>>

\* The effect has run for the step and wizard on screen.
EffectsFlushed == effectDeps = <<currentStep, wizard>>

\* setStateAtPath, called by a field of the step shown when its value is
\* edited: one set() on the state of the moment.  A throw of setJsonPath
\* leaves the state as it is.
SetStateAtPath(path, value) ==
    /\ StepShown
    /\ sessionState' = IF setJsonPathThrows(path) THEN sessionState
                       ELSE setJsonPathLeaves(sessionState, path, value)
    /\ batch' = IF batch.pc = "running" /\ ~setJsonPathThrows(path)
                THEN [batch EXCEPT !.bound = @ \cup { <<PartsOf(path), value>> }]
                ELSE batch
    /\ lastCall' = "setStateAtPath"
    /\ UNCHANGED <<wizard, pages, sessionId, currentStep, stepHistory, isLoading, error>>
    /\ UNCHANGED <<runner, sessions, patches, freshNav>>
    /\ UNCHANGED <<storeVars, pureVars, effectDeps>>

\* Effects are flushed before the next event is handled.
HookNext ==
    \/ EffectsFlushed /\ \E prefill \in Prefills : Mount("v1", 0, prefill)
    \/ EffectsFlushed /\ LoadWizardDone
    \/ EffectsFlushed /\ CreateSession
    \/ EffectsFlushed /\ GoNext
    \/ EffectsFlushed /\ GoBack
    \/ \E p \in patches : PatchApplied(p)
    \/ OnEnterEffect
    \/ \E hook \in {"h1", "h2", "h3"} : \E result \in HookResults(hook) : ExecuteHook(result)

\* A session on a wizard with onEnter hooks.
SpecHooks == HookInit /\ [][HookNext]_vars

\* The same with the scheduling the runtime provides: an effect that is due
\* runs, and a request in flight is answered.  Whether a hook resolves is up
\* to the endpoint it calls; executeHook and executeStepHooks await it
\* without a timer, so no step of the program ends a pending hook.
SpecHooksFair ==
    /\ SpecHooks
    /\ WF_vars(OnEnterEffect)
    /\ WF_vars(\E p \in patches : PatchApplied(p))

\* One mount of the wizard with hooks and the way forward through its
\* steps, in which fields are edited while a batch of hooks runs: a field
\* bound to the path of the prefill and one bound to the path that h1 and h2
\* patch.
SpecBinds ==
    /\ HookInit
    /\ [][ \/ EffectsFlushed /\ lastCall = "none" /\ \E prefill \in Prefills : Mount("v1", 0, prefill)
           \/ EffectsFlushed /\ LoadWizardDone
           \/ EffectsFlushed /\ CreateSession
           \/ EffectsFlushed /\ GoNext
           \/ /\ EffectsFlushed
              /\ batch.pc = "running"
              /\ \E path \in { <<"$", ".", "application", ".", "name">>,
                                <<"$", ".", "context", ".", "h1">> } :
                    SetStateAtPath(path, "Bob")
           \/ \E p \in patches : PatchApplied(p)
           \/ OnEnterEffect
           \/ \E hook \in {"h1", "h2", "h3"} : \E result \in HookResults(hook) : ExecuteHook(result)
         ]_vars

----------------------------------------------------------------------------
(* Claims on the definition store and the publish pipeline *)

PublishFailures == {"NotFound", "SchemaInvalid", "ReferentialIntegrityFailed"}

\* The request of client c is answered with success in this step.
PublishSucceeds(c) == reqs[c].pc # "idle" /\ reqs'[c].pc = "idle" /\ resp'.status = "ok"

\* The request of client c is answered with a failure in this step.
PublishFails(c) == reqs[c].pc # "idle" /\ reqs'[c].pc = "idle" /\ resp'.status \in PublishFailures

\* A publish request is refused at its first step (no draft, or invalid body).
PublishRefusedAtLoad ==
    /\ reqs' = reqs
    /\ resp' # resp
    /\ resp'.op = "publish"
    /\ resp'.status \in PublishFailures

\* C1: the k-th successful publish of a key creates version vk, above every
\* earlier version of the key, and every published row is returned by
\* getPublished with the body and checksum it was created with after every
\* later draft edit, draft deletion or publish.
C1_VersionsIncreaseAndStay ==
    [][ /\ \A c \in Clients :
              PublishSucceeds(c) =>
                 LET r == reqs[c]
                     v == resp'.version
                 IN  /\ v = VersionTag(pubCount[<<r.kind, r.key>>] + 1)
                     /\ \A old \in PublishedRows(store, r.kind, r.key) :
                           VersionNumber(old.version) < VersionNumber(v)
                     /\ HasPublished(store', r.kind, r.key, v)
                     /\ getPublished(store', r.kind, r.key, v).body = r.body
                     /\ getPublished(store', r.kind, r.key, v).checksum = Checksum(r.body)
        /\ \A kind \in Kinds : \A row \in store[kind] :
              row.version # DRAFT =>
                 /\ HasPublished(store', kind, row.key, row.version)
                 /\ getPublished(store', kind, row.key, row.version) = row
      ]_vars

\* C1 witness: v1 and v2 of the wizard exist with different bodies, and the
\* draft they were published from has since been deleted.
C1_Witness ==
    /\ HasPublished(store, "wizard", "w", "v1")
    /\ HasPublished(store, "wizard", "w", "v2")
    /\ getPublished(store, "wizard", "w", "v1").body # getPublished(store, "wizard", "w", "v2").body
    /\ ~HasDraft(store, "wizard", "w")
    /\ resp.op = "delete"

\* C2: whatever the interleaving of publish requests, the published versions
\* of a key are exactly 1..n, n the number of its successful publishes, each
\* carried by one row; the numbering of a key does not depend on other keys.
C2_VersionsDistinctGapFree ==
    \A k \in StoreKeys :
        /\ PublishedNumbers(store, k[1], k[2]) = 1..pubCount[k]
        /\ Cardinality(PublishedRows(store, k[1], k[2])) = pubCount[k]

\* C2 witness: two requests for the page overlapped; the first client's has
\* committed v1 and the second client's is still to commit.
C2_Witness ==
    /\ reqs[1].pc = "idle"
    /\ reqs[2].pc = "commit" /\ reqs[2].kind = "page" /\ reqs[2].key = "p"
    /\ resp.op = "publish" /\ resp.status = "ok" /\ resp.version = "v1"
    /\ pubCount[<<"page", "p">>] = 1
    /\ pubCount[<<"wizard", "w">>] = 0

\* The reference names a published page row at exactly (page_key, version).
PinnedPageExists(st, ref) ==
    /\ Len(Split(ref, "@")) = 2
    /\ HasPublished(st, "page", Join(Split(ref, "@")[1]), Join(Split(ref, "@")[2]))

\* C3: publishing a wizard draft fails with ReferentialIntegrityFailed exactly
\* when some page reference of its steps has no published page row at that
\* exact (page_key, version), and the error lists exactly those references.
C3_FailsExactlyOnUnpinnedOrMissing ==
    [][ \A c \in Clients :
           (reqs[c].pc = "refs" /\ reqs[c].kind = "wizard" /\ reqs'[c] # reqs[c]) =>
              LET unresolved == { ref \in ExtractPageRefs(reqs[c].body) :
                                     ~PinnedPageExists(store, ref) }
              IN  /\ PublishFails(c) <=> unresolved # {}
                  /\ PublishFails(c) =>
                        /\ resp'.status = "ReferentialIntegrityFailed"
                        /\ resp'.errors = unresolved
      ]_vars

\* C4: every page reference of every published wizard version can be parsed
\* and loaded by the runtime.
C4_PublishedWizardsLoad ==
    \A row \in store.wizard :
        row.version # DRAFT => loadWizardPagesOk(store, row.body)

\* C5: a publish request that fails leaves the store as it was: the failing
\* step changes no row, the request has created no version, and no version
\* number is consumed.
C5_FailedPublishChangesNothing ==
    [][ /\ PublishRefusedAtLoad => store' = store /\ pubCount' = pubCount
        /\ \A c \in Clients :
              PublishFails(c) =>
                 /\ store' = store
                 /\ pubCount' = pubCount
                 /\ reqs[c].version = ""
                 /\ Cardinality(PublishedRows(store', reqs[c].kind, reqs[c].key))
                       = pubCount'[<<reqs[c].kind, reqs[c].key>>]
      ]_vars

\* C5 witness: a publish of the wizard just failed on a missing reference
\* after the page got its first version; the wizard draft is still there.
C5_Witness ==
    /\ resp.op = "publish"
    /\ resp.status = "ReferentialIntegrityFailed"
    /\ HasDraft(store, "wizard", "w")
    /\ pubCount[<<"page", "p">>] = 1
    /\ pubCount[<<"wizard", "w">>] = 0

DraftsOf(st, kind) == { r \in st[kind] : r.version = DRAFT }

\* C6: a successful publish leaves every draft row as it was (same id, body
\* and checksum), the draft of the published key included.
C6_PublishKeepsDraft ==
    [][ \A c \in Clients :
           PublishSucceeds(c) =>
              \A kind \in Kinds : DraftsOf(store', kind) = DraftsOf(store, kind)
      ]_vars

\* C6 witness: the page was just published for the second time from a draft
\* that is still there.
C6_Witness ==
    /\ resp.op = "publish" /\ resp.status = "ok" /\ resp.version = "v2"
    /\ pubCount[<<"page", "p">>] = 2
    /\ pubCount[<<"wizard", "w">>] = 0
    /\ HasDraft(store, "page", "p")

\* C7: a key has at most one draft row; creating a draft for a key that has
\* one answers Conflict and changes nothing; updating a draft keeps its row.
C7_OneDraftPerKey ==
    \A k \in StoreKeys :
        /\ Cardinality(DraftRows(store, k[1], k[2])) <= 1
        /\ HasDraft(store, k[1], k[2]) =>
              \A body \in BodiesOf(k[1]) :
                 /\ createDraft(store, k[1], k[2], body) = [status |-> "Conflict", store |-> store]
                 /\ LET after == updateDraft(store, k[1], k[2], body).store
                    IN  /\ Cardinality(DraftRows(after, k[1], k[2])) = 1
                        /\ getDraft(after, k[1], k[2]).id = getDraft(store, k[1], k[2]).id
                        /\ getDraft(after, k[1], k[2]).body = body

\* C7 witness: a second create for the wizard key was answered with Conflict.
C7_Witness ==
    /\ resp.op = "create"
    /\ resp.status = "Conflict"
    /\ HasDraft(store, "wizard", "w")

----------------------------------------------------------------------------
(* Claims on the session engine *)

\* A session is running in the store: the init effect has finished, nothing is
\* loading or failed, and a wizard and a session are loaded.
Active ==
    /\ runner.pc = "idle"
    /\ ~isLoading
    /\ error = ""
    /\ wizard # NoWizard
    /\ sessionId # 0

\* C8: while a session is active, currentStep is null or names a step of the
\* wizard the session runs.
C8_CurrentStepNamesStep ==
    Active => (currentStep = "" \/ currentStep \in StepIds(wizard.steps))

\* The ids of the steps in declaration order.
StepIdSeq(steps) == [k \in 1..Len(steps) |-> steps[k].id]

C10_LastStepCompletes ==
    (lastCall = "goNext:last" /\ sessionId \in 1..Len(sessions)) =>
        sessions[sessionId].status = "completed"

C12_FailedStartLeavesNothing ==
    (error = "Failed to load wizard" /\ lastCall \in {"createSession:ok", "createSession:throw"}) =>
        /\ lastCall = "createSession:throw"
        /\ sessionId = 0
        /\ wizard = NoWizard
        /\ pages = NoPages

\* C13: the pages in the store are those of the loaded wizard's references,
\* and the page bound to a step that references key@ver is the published row
\* (key, ver), whatever other versions of the page exist by now.
C13_StepPagesArePinned ==
    /\ DOMAIN pages = WizardPageRefs(wizard.steps)
    /\ \A i \in 1..Len(wizard.steps) :
          LET step == wizard.steps[i]
              ref  == parsePageRef(step.pageRef)
          IN  step.pageRef # NoRef =>
                 /\ ref.ok
                 /\ HasPublished(store, "page", ref.pageKey, ref.version)
                 /\ getPageForStep(step, pages)
                       = PageDefinition(getPublished(store, "page", ref.pageKey, ref.version))
                 /\ getPageForStep(step, pages).version = ref.version

\* C13 witness: a session runs on the page pinned at v1 although v2, with
\* other fields, is published; it was started after v2 came out.
C13_Witness ==
    /\ sessionId # 0
    /\ lastCall = "createSession:ok"
    /\ HasPublished(store, "page", "p", "v2")
    /\ getPublished(store, "page", "p", "v2").body # getPublished(store, "page", "p", "v1").body
    /\ getPageForStep(wizard.steps[1], pages).version = "v1"

----------------------------------------------------------------------------
(* Claims on the path functions *)

\* Identifier segments joined by dots.
IdentifierPath(path) ==
    /\ Len(path) % 2 = 1
    /\ \A i \in 1..Len(path) : IF i % 2 = 1 THEN path[i] \in Segments ELSE path[i] = "."

\* The root sentinel alone, or the root sentinel, a dot and identifier segments.
SentinelPath(path) ==
    \/ path = <<"$">>
    \/ StartsWithRoot(path) /\ IdentifierPath(SubSeq(path, 3, Len(path)))

\* C14: for every tree, valid path and value, get(set(t, p, v), p) is v, in
\* runtime/jsonpath (paths with the root sentinel) and in the SDK (bare paths).
C14_GetAfterSetIsValue ==
    /\ (call.op = "setJsonPath;getJsonPath" /\ SentinelPath(call.path)) =>
          ~call.threw /\ call.got = call.value
    /\ (call.op = "setByPath;getByPath" /\ IdentifierPath(call.path)) =>
          ~call.threw /\ call.got = call.value

\* C14 witness: a value written under a property that was a string in the
\* tree is read back.
C14_Witness ==
    /\ call.op = "setJsonPath;getJsonPath"
    /\ call.path = <<"$", ".", "s", ".", "b">>
    /\ call.before = TreeHeap
    /\ call.value = Obj(4)
    /\ call.got = Obj(4)

\* The objects the caller had before the call are what they were.
InputUntouched ==
    /\ Len(heap) >= Len(call.before)
    /\ \A i \in 1..Len(call.before) : heap[i] = call.before[i]

\* C15: set and delete leave the caller's tree, and every object reachable
\* from it, as it was: for every tree, path and value.
C15_SetAndDeleteDoNotMutate ==
    call.op \in {"setJsonPath", "setByPath", "deleteByPath"} => InputUntouched

\* C15 witness: the returned tree has the new value at a.b while the
\* caller's object at a still has the old one.
C15_Witness ==
    /\ call.op = "setJsonPath"
    /\ call.path = <<"$", ".", "a", ".", "b">>
    /\ call.before = TreeHeap
    /\ call.value = Str("v")
    /\ Prop(heap, Prop(heap, call.out, "a"), "b") = Str("v")
    /\ Prop(heap, Prop(heap, Root, "a"), "b") = Str("old")
    /\ Prop(heap, call.out, "a") # Prop(heap, Root, "a")

\* The path contains a reserved key, a wildcard or a parent traversal.
ContainsForbidden(path) ==
    \/ \E i \in 1..Len(path) : path[i] \in Forbidden
    \/ \E i \in 1..(Len(path) - 1) : path[i] = "." /\ path[i + 1] = "."

\* C16: every path operation fails on a path that contains __proto__,
\* constructor, prototype, '..' or '*', and produces no tree or value.
C16_ForbiddenPathsFail ==
    (call.op \in {"getJsonPath", "setJsonPath", "getByPath", "setByPath",
                  "deleteByPath", "hasPath"}
        /\ ContainsForbidden(call.path)) =>
            call.threw /\ heap = call.before

----------------------------------------------------------------------------
(* Claims on the condition evaluator *)

\* C17: a compound condition with logic 'and' evaluates to the conjunction of
\* its children's evaluations, with 'or' to their disjunction (true and false
\* for the empty list), and with any other logic to false; children may be
\* compound themselves.  (Of the evaluations that return.)
C17_CompoundIsConjunctionOrDisjunction ==
    (call.op = "evaluateCondition" /\ ~call.threw /\ isCompoundCondition(call.condition)) =>
        LET children == call.condition.conditions
            Child(i) == evaluateCondition(children[i], heap, Root)
        IN  call.result =
               CASE call.condition.logic = "and" -> (\A i \in 1..Len(children) : Child(i))
                 [] call.condition.logic = "or"  -> (\E i \in 1..Len(children) : Child(i))
                 [] OTHER                        -> FALSE

\* C17 witness: an 'or' of an object that is no condition and an empty 'and'
\* evaluated to true.
C17_Witness ==
    /\ call.op = "evaluateCondition"
    /\ call.condition =
          [logic |-> "or",
           conditions |-> << [logic |-> "and"],
                             [logic |-> "and", conditions |-> <<>>] >>]
    /\ call.result = TRUE

----------------------------------------------------------------------------
(* Claims on concurrent navigation *)

\* C18: once every goNext of a session has returned (no update request is in
\* flight any more), the current_step of the session record is the current
\* step of the store, also when a goNext started while the request of the one
\* before was in flight.
C18_AdvancesPersistCurrentStep ==
    (sessionId # 0 /\ lastCall = "goNext:moved" /\ patches = {}) =>
        sessions[sessionId].current_step = currentStep

----------------------------------------------------------------------------
(* Claims on hooks *)

\* C19: a batch of onEnter hooks runs for a step only when the step was
\* entered forward (by the load or by goNext), never when goBack returned
\* to it.
C19_GoBackRunsNoOnEnterHooks ==
    batch.pc # "idle" => batch.enteredBy # "goBack:popped"

C21_FailedBatchUndoesTransition ==
    (batch.pc = "threw" /\ batch.enteredBy = "goNext:moved" /\ patches = {}) =>
        /\ currentStep # batch.step
        /\ sessionId # 0 => sessions[sessionId].current_step # batch.step

\* A path of the grammar: the root sentinel alone, or the sentinel, a dot and
\* one or more non-empty segments joined by dots, none of them array syntax
\* or a dangerous key.
GrammarPath(path) ==
    \/ path = <<"$">>
    \/ /\ StartsWithRoot(path)
       /\ Len(path) % 2 = 1
       /\ \A i \in 3..Len(path) :
             IF i % 2 = 1
             THEN path[i] \notin {"", ".", "$"} \cup ArraySyntax \cup dangerousKeys
             ELSE path[i] = "."

\* Two paths of which one is the other or lies below it.
Overlap(p, q) ==
    LET n == IF Len(p) <= Len(q) THEN Len(p) ELSE Len(q)
    IN  SubSeq(p, 1, n) = SubSeq(q, 1, n)

C24_MalformedPathsFail ==
    (call.op \in {"getJsonPath", "setJsonPath"} /\ ~GrammarPath(call.path)) => call.threw

----------------------------------------------------------------------------
(* Claims on the grammar of paths and on malformed conditions *)

\* C25: a simple condition whose field is a path of the grammar of binds and
\* hook patches (with the root sentinel) is evaluated against the value that
\* getJsonPath returns for that path on the same state.
C25_ConditionsReadWhatGetReads ==
    (/\ call.op = "evaluateCondition"
     /\ ~call.threw
     /\ isSimpleCondition(call.condition)
     /\ ~isCompoundCondition(call.condition)
     /\ GrammarPath(call.condition.field)) =>
        LET fieldValue == getJsonPath(heap, Root, call.condition.field).value
            operator   == call.condition.operator
        IN  call.result =
               CASE operator = "eq"       -> fieldValue = call.condition.value
                 [] operator = "neq"      -> fieldValue # call.condition.value
                 [] operator = "empty"    -> fieldValue \in {Undefined, Null, Str("")}
                 [] operator = "notEmpty" -> fieldValue \notin {Undefined, Null, Str("")}
                 [] OTHER                 -> FALSE

\* C26: evaluateCondition returns a boolean and never raises, whatever the
\* condition: malformed ones included.
C26_EvaluateNeverRaises == call.op = "evaluateCondition" => ~call.threw

----------------------------------------------------------------------------
(* Claims on resuming a session *)

\* C27: when a mount without a version prop has resumed a session, the
\* wizard in the store is the version pinned in the session record, also when
\* a later version of the wizard is published.
C27_ResumeLoadsPinnedWizard ==
    [][ (/\ runner.pc = "session"
         /\ runner.sessionId # 0
         /\ runner.version = ""
         /\ lastCall' = "loadSession:ok") =>
            /\ wizard' # NoWizard
            /\ wizard'.version = sessions'[sessionId'].wizard_version
      ]_vars

----------------------------------------------------------------------------
(* Claims on deleting *)

RECURSIVE TreeOf(_, _)
\* The tree a value stands for: an object with the trees of its properties,
\* or the value itself.
TreeOf(h, v) ==
    IF v.type = "object"
    THEN [object |-> [k \in DOMAIN h[v.ref] |-> TreeOf(h, h[v.ref][k])]]
    ELSE [value |-> v]

\* C30: deleteByPath with a path that has no value in the tree (hasPath is
\* false) returns a tree equal to the one it was given, whether the path
\* ends at a missing property or runs over a null or missing node before.
C30_DeleteOfAbsentPathKeepsTree ==
    (/\ call.op = "deleteByPath"
     /\ hasPath(call.before, Root, call.path).value = Bool(FALSE)) =>
        /\ ~call.threw
        /\ TreeOf(heap, call.out) = TreeOf(call.before, Root)

----------------------------------------------------------------------------
(* Claims on binding while hooks run *)

====
